---------------------------- MODULE Spec2Model ----------------------------
(***************************************************************************)
(* The sentiment database API: the PostgreSQL adapter (postgresDB.js) and  *)
(* the Express/Socket.IO server in front of it.  The store is one table,   *)
(* every adapter call is one or two queries against it, every handler is   *)
(* a chain of awaited adapter calls, and handlers of different requests    *)
(* interleave at their awaits.                                             *)
(*                                                                         *)
(* Numbers with decimals are kept as integers: confidence, probabilities   *)
(* and percentages in hundredths (0.95 is 95, 66.67 is 6667), the average  *)
(* confidence in ten-thousandths (0.95 is 9500).                           *)
(***************************************************************************)
EXTENDS Integers, Sequences, FiniteSets, Bags

VARIABLES
    pool,        \* TRUE when DATABASE_URL was set and the Pool was built
    storeUp,     \* whether PostgreSQL answers the pool's queries right now
    table,       \* sentiment_analysis, rows in physical (insertion) order
    nextId,      \* the id sequence of the table
    clock,       \* the store's clock, which ticks before every insert
    boot,        \* the start-up call of initializeDatabase
    req,         \* the handler running for each request in flight
    floating,    \* the bag of insert calls nobody awaits, their query pending
    settled,     \* the adapter promises the last step settled, with their values
    response,    \* the HTTP response the last step sent, if any
    sockets,     \* the subscribers connected right now
    published,   \* the 'data-updated' event the last step emitted, if any
    origin,      \* for each row of the table, the all_probabilities its caller gave
    cleared,     \* a DELETE succeeded and no INSERT has committed since
    unannounced, \* the table changed since the last 'data-updated' event
    exited,      \* the exit code once process.exit ran, -1 before
    shutdown     \* the SIGINT handler's position, and whether pool.end() ran

vars == <<pool, storeUp, table, nextId, clock, boot, req, floating, settled,
          response, sockets, published, origin, cleared,
          unannounced, exited, shutdown>>

---------------------------------------------------------------------------
(* Bounds of the model *)

MaxId == 2           \* rows the requests of a run insert
MaxRows == 5         \* rows already stored when the server starts
MaxSlots == 1        \* requests in flight at once
MaxSockets == 1      \* subscribers that may connect
MaxLimit == 3        \* the largest ?limit= a request asks for

Slots == 1..MaxSlots
Clients == 1..MaxSockets

---------------------------------------------------------------------------
(* JavaScript values *)

Undefined == [type |-> "undefined"]
Null == [type |-> "null"]
NaN == [type |-> "NaN"]
Num(n) == [type |-> "number", val |-> n]
Str(s) == [type |-> "string", val |-> s]
\* a string the code looks into, as its sequence of characters
Chars(s) == [type |-> "string", chars |-> s]
Probs(p, n, u) == [type |-> "object", positive |-> p, negative |-> n, neutral |-> u]
\* a Promise object: none of the fields the handlers read is a property of it
Promise == [type |-> "promise"]

\* !v
Falsy(v) ==
    \/ v.type \in {"undefined", "null", "NaN"}
    \/ v.type = "number" /\ v.val = 0
    \/ v.type = "string" /\ "val" \in DOMAIN v /\ v.val = ""
    \/ v.type = "string" /\ "chars" \in DOMAIN v /\ v.chars = <<>>

\* obj.name for the properties the code reads
Get(obj, name) ==
    IF obj.type = "object" /\ name \in DOMAIN obj THEN obj[name] ELSE Undefined

Min(a, b) == IF a < b THEN a ELSE b
Max(a, b) == IF a > b THEN a ELSE b

Digits == <<"0", "1", "2", "3", "4", "5", "6", "7", "8", "9">>
DigitVal(c) == (CHOOSE i \in 1..10 : Digits[i] = c) - 1
IsDigit(c) == \E i \in 1..10 : Digits[i] = c

\* the decimal text of a natural number, as a sequence of characters
RECURSIVE ToDecimal(_)
ToDecimal(n) ==
    IF n < 10 THEN <<Digits[n + 1]>>
    ELSE Append(ToDecimal(n \div 10), Digits[(n % 10) + 1])

\* the value of the longest prefix of digits of s, acc the value so far
RECURSIVE DigitsPrefix(_, _)
DigitsPrefix(s, acc) ==
    IF s = <<>> \/ ~IsDigit(Head(s)) THEN acc
    ELSE DigitsPrefix(Tail(s), acc * 10 + DigitVal(Head(s)))

\* parseInt(s): optional sign, then digits up to the first other character
parseInt(s) ==
    LET signed == s # <<>> /\ Head(s) \in {"-", "+"}
        body   == IF signed THEN Tail(s) ELSE s
    IN  IF body = <<>> \/ ~IsDigit(Head(body)) THEN NaN
        ELSE IF signed /\ Head(s) = "-" THEN Num(0 - DigitsPrefix(body, 0))
        ELSE Num(DigitsPrefix(body, 0))

\* array.slice(0, end)
\* a slice that keeps one element too many
sliceInclusive(array, end) ==
    LET len == Len(array)
        k   == IF end = NaN THEN 0
               ELSE IF end.val < 0 THEN Max(len + end.val, 0)
               ELSE Min(end.val + 1, len)
    IN  SubSeq(array, 1, k)

slice(array, end) ==
    LET len == Len(array)
        k   == IF end = NaN THEN 0
               ELSE IF end.val < 0 THEN Max(len + end.val, 0)
               ELSE Min(end.val, len)
    IN  SubSeq(array, 1, k)

\* n / d rounded to the nearest integer, halves away from zero (n, d >= 0)
RoundDiv(n, d) == (2 * n + d) \div (2 * d)

---------------------------------------------------------------------------
(* The requests the model sends *)

FullProbs == Probs(Num(95), Num(3), Num(2))
NoNeutral == Probs(Num(95), Num(5), Undefined)

Body(t, c, f, p) ==
    [text |-> t, predicted_class |-> c, confidence |-> f, all_probabilities |-> p]

\* a body with text, predicted_class, a confidence in (0,1] and the full triple
ValidBodies ==
    { Body(Str("great product"), Str("positive"), Num(95), FullProbs) }

\* bodies that pass the handler's check, one of them without neutral
AcceptedBodies ==
    ValidBodies \cup { Body(Str("bad product"), Str("negative"), Num(80), NoNeutral) }

\* bodies the handler turns down
RejectedBodies ==
    { Body(Str("great product"), Str("positive"), Num(0), FullProbs),
      Body(Undefined, Str("positive"), Num(95), FullProbs),
      Body(Str(""), Str("positive"), Num(95), FullProbs),
      Body(Str("great product"), Undefined, Num(95), FullProbs),
      Body(Str("great product"), Str("positive"), Undefined, FullProbs),
      Body(Str("great product"), Str("positive"), Num(95), Undefined) }

Bodies == AcceptedBodies \cup RejectedBodies

\* what the rows stored before the server started were saved from
StoredBodies ==
    { Body(Str("great product"), Str("positive"), Num(95), FullProbs),
      Body(Str("bad product"), Str("negative"), Num(80),
           Probs(Num(3), Num(95), Num(2))),
      Body(Str("so so"), Str("neutral"), Num(50),
           Probs(Num(10), Num(10), Num(80))) }

\* ?limit= values of GET /api/sentiment-data; Undefined is no parameter
Limits ==
    { Undefined, Chars(<<>>), Chars(<<"-", "1">>), Chars(<<"2", "a">>), Chars(<<"a">>) }
    \cup { Chars(ToDecimal(n)) : n \in 0..MaxLimit }

---------------------------------------------------------------------------
(* The store: the SQL of the adapter's queries over the table *)

NotRun == [type |-> "pending"]
Failed == [ok |-> FALSE, error |-> Str("connect ECONNREFUSED")]
Rows(rs) == [ok |-> TRUE, rows |-> rs]

\* node-postgres binds undefined as NULL
prepareValue(v) == IF v = Undefined THEN Null ELSE v

\* the column keeps the value bound to it; the probability columns take NULL
ColumnValue(v) == prepareValue(v)

NotNull == [ok |-> FALSE, error |-> Str("null value violates not-null constraint")]

\* the table is created outside this code: a NULL probability is stored if
\* its column takes NULL and refused if not; NotRun stands for no refusal
Refusals(values) ==
    IF \E i \in 4..6 : ColumnValue(values[i]) = Null
    THEN {NotRun, NotNull}
    ELSE {NotRun}

\* INSERT INTO sentiment_analysis (...) VALUES ($1..$7) RETURNING *
InsertRow(values, id, now) ==
    [id |-> Num(id),
     text |-> ColumnValue(values[1]),
     predicted_class |-> ColumnValue(values[2]),
     confidence |-> ColumnValue(values[3]),
     positive_prob |-> ColumnValue(values[4]),
     negative_prob |-> ColumnValue(values[5]),
     neutral_prob |-> ColumnValue(values[6]),
     source |-> ColumnValue(values[7]),
     created_at |-> Num(now),
     updated_at |-> Num(now)]

\* the sequences that list the rows idx of t newest first; rows of one
\* created_at come in any order
RECURSIVE NewestFirst(_, _)
NewestFirst(t, idx) ==
    IF idx = {} THEN { <<>> }
    ELSE UNION { { <<t[m]>> \o rest : rest \in NewestFirst(t, idx \ {m}) } :
                 m \in { i \in idx : \A j \in idx :
                            t[j].created_at.val <= t[i].created_at.val } }

\* ORDER BY created_at DESC: every order the store may return
OrderByCreatedAtDesc(t) == NewestFirst(t, 1..Len(t))

Project(row, cols) == [c \in cols |-> row[c]]

AllColumns ==
    {"id", "text", "predicted_class", "confidence", "positive_prob",
     "negative_prob", "neutral_prob", "source", "created_at", "updated_at"}

RecentColumns == AllColumns \ {"updated_at"}

\* SELECT ... FROM sentiment_analysis ORDER BY created_at DESC
SelectAll(t) ==
    { Rows([i \in 1..Len(s) |-> Project(s[i], AllColumns)]) :
        s \in OrderByCreatedAtDesc(t) }

\* SELECT ... ORDER BY created_at DESC LIMIT $1
SelectRecent(t, limit) ==
    { Rows([i \in 1..Min(limit, Len(s)) |-> Project(s[i], RecentColumns)]) :
        s \in OrderByCreatedAtDesc(t) }

InClass(t, c) == { i \in 1..Len(t) : t[i].predicted_class = c }

RECURSIVE SumConfidence(_, _)
SumConfidence(t, idx) ==
    IF idx = {} THEN 0
    ELSE LET i == CHOOSE j \in idx : TRUE
         IN  t[i].confidence.val + SumConfidence(t, idx \ {i})

\* one row of the GROUP BY: COUNT(*) comes back as bigint text, AVG as an
\* exact quotient, ROUND(COUNT(*) * 100.0 / total, 2) in hundredths
\* the percentage cut after two decimals instead of rounded
TruncPercentage(count, total) == (count * 10000) \div total

RoundPercentage(count, total) == RoundDiv(count * 10000, total)

StatsGroup(t, c) ==
    [predicted_class |-> c,
     count |-> Chars(ToDecimal(Cardinality(InClass(t, c)))),
     avg_confidence |-> [num |-> SumConfidence(t, InClass(t, c)),
                         den |-> Cardinality(InClass(t, c))],
     percentage |-> RoundPercentage(Cardinality(InClass(t, c)), Len(t))]

\* GROUP BY predicted_class ORDER BY count DESC, ties in any order
SelectStats(t) ==
    LET groups == { StatsGroup(t, t[i].predicted_class) : i \in 1..Len(t) }
        k      == Cardinality(groups)
    IN  { Rows(s) :
            s \in { q \in [1..k -> groups] :
                      /\ \A i, j \in 1..k : i # j => q[i] # q[j]
                      /\ \A i \in 1..(k - 1) :
                            Cardinality(InClass(t, q[i].predicted_class)) >=
                            Cardinality(InClass(t, q[i + 1].predicted_class)) } }

\* SELECT COUNT(*) as total FROM sentiment_analysis
SelectCount(t) == { Rows(<<[total |-> Chars(ToDecimal(Len(t)))]>>) }

\* SELECT MAX(created_at) as last_updated FROM sentiment_analysis
SelectMax(t) ==
    { Rows(<<[last_updated |->
                IF t = <<>> THEN Null
                ELSE Num(CHOOSE m \in { t[i].created_at.val : i \in 1..Len(t) } :
                            \A i \in 1..Len(t) : t[i].created_at.val <= m)]>>) }

Reads == {"all", "stats", "chart", "recent", "count", "max", "connect"}

\* what a read may answer when the store is up
Select(q, t) ==
    CASE q = "all" -> SelectAll(t)
      [] q \in {"stats", "chart"} -> SelectStats(t)
      [] q = "recent" -> SelectRecent(t, 5)
      [] q = "count" -> SelectCount(t)
      [] q = "max" -> SelectMax(t)
      [] q = "connect" -> { Rows(<<>>) }

---------------------------------------------------------------------------
(* postgresDB.js: what each adapter call settles with, given the outcome   *)
(* of its query.  Return is a fulfilled promise, Throw a rejected one.     *)

Return(v) == [threw |-> FALSE, value |-> v]
Throw(e) == [threw |-> TRUE, error |-> e]

NotConfigured == [success |-> FALSE, error |-> Str("PostgreSQL not configured")]

\* the nested object rebuilt with two columns exchanged
all_probabilitiesSwapped(row) ==
    Probs(row.positive_prob, row.neutral_prob, row.negative_prob)

\* the nested object rebuilt from the three probability columns
all_probabilities(row) ==
    Probs(row.positive_prob, row.negative_prob, row.neutral_prob)

\* { ...row, all_probabilities: {...} }
WithProbabilities(row) ==
    [f \in DOMAIN row \cup {"all_probabilities"} |->
        IF f = "all_probabilities" THEN all_probabilities(row) ELSE row[f]]

\* the parameters of the INSERT; reading a property of undefined throws
InsertValues(analysisData) ==
    IF analysisData.all_probabilities.type \in {"undefined", "null"}
    THEN Throw(Str("Cannot read properties of undefined (reading 'positive')"))
    ELSE Return(<<analysisData.text,
                  analysisData.predicted_class,
                  analysisData.confidence,
                  Get(analysisData.all_probabilities, "positive"),
                  Get(analysisData.all_probabilities, "negative"),
                  Get(analysisData.all_probabilities, "neutral"),
                  IF Falsy(analysisData.source) THEN Str("web_analyzer")
                  ELSE analysisData.source>>)

\* the object the handler hands to insertSentimentAnalysis
AnalysisData(body) ==
    [text |-> body.text,
     predicted_class |-> body.predicted_class,
     confidence |-> body.confidence,
     all_probabilities |-> body.all_probabilities,
     source |-> Str("web_analyzer")]

\* insertSentimentAnalysis after its query: outcome is the INSERT's outcome,
\* or the error thrown before the query was sent
insertSentimentAnalysis(p, outcome) ==
    IF ~p THEN Return(NotConfigured)
    ELSE IF outcome.ok
    THEN Return([success |-> TRUE,
                 id |-> outcome.rows[1].id,
                 data |-> WithProbabilities(outcome.rows[1])])
    ELSE Return([success |-> FALSE, error |-> outcome.error])

getAllSentimentData(p, outcome) ==
    IF ~p THEN Return(<<>>)
    ELSE IF outcome.ok
    THEN Return([i \in 1..Len(outcome.rows) |-> WithProbabilities(outcome.rows[i])])
    ELSE Return(<<>>)

\* parseFloat(parseFloat(avg).toFixed(4)), in ten-thousandths
ToFixed4(avg) == RoundDiv(avg.num * 100, avg.den)

\* getSentimentStats with no catch around its query
getSentimentStatsUncaught(p, outcome) ==
    IF ~p THEN Return(<<>>)
    ELSE IF outcome.ok
    THEN Return([i \in 1..Len(outcome.rows) |->
                    [predicted_class |-> outcome.rows[i].predicted_class,
                     count |-> parseInt(outcome.rows[i].count.chars),
                     avg_confidence |-> Num(ToFixed4(outcome.rows[i].avg_confidence)),
                     percentage |-> Num(outcome.rows[i].percentage)]])
    ELSE Throw(outcome.error)

getSentimentStats(p, outcome) ==
    IF ~p THEN Return(<<>>)
    ELSE IF outcome.ok
    THEN Return([i \in 1..Len(outcome.rows) |->
                    [predicted_class |-> outcome.rows[i].predicted_class,
                     count |-> parseInt(outcome.rows[i].count.chars),
                     avg_confidence |-> Num(ToFixed4(outcome.rows[i].avg_confidence)),
                     percentage |-> Num(outcome.rows[i].percentage)]])
    ELSE Return(<<>>)

getSentimentColor(sentiment) ==
    CASE sentiment = Str("positive") -> "#22c55e"
      [] sentiment = Str("negative") -> "#ef4444"
      [] sentiment = Str("neutral") -> "#6b7280"
      [] OTHER -> "#6b7280"

\* charAt(0).toUpperCase() + slice(1) on the labels of the model
Capitalize(label) ==
    CASE label = Str("positive") -> Str("Positive")
      [] label = Str("negative") -> Str("Negative")
      [] label = Str("neutral") -> Str("Neutral")
      [] OTHER -> label

getChartData(p, outcome) ==
    LET stats == getSentimentStats(p, outcome)
    IN  IF stats.threw THEN Return(<<>>)
        ELSE Return([i \in 1..Len(stats.value) |->
                        [name |-> Capitalize(stats.value[i].predicted_class),
                         value |-> stats.value[i].percentage,
                         count |-> stats.value[i].count,
                         avgConfidence |-> stats.value[i].avg_confidence,
                         color |-> getSentimentColor(stats.value[i].predicted_class)]])

getRecentEntries(p, outcome) ==
    IF ~p THEN Return(<<>>)
    ELSE IF outcome.ok
    THEN Return([i \in 1..Len(outcome.rows) |-> WithProbabilities(outcome.rows[i])])
    ELSE Return(<<>>)

\* Promise.all of the two queries, the catch answers for either failing
getDatabaseStats(p, count, max) ==
    IF ~p THEN Return([total_entries |-> Num(0), last_updated |-> Null])
    ELSE IF count.ok /\ max.ok
    THEN Return([total_entries |-> parseInt(count.rows[1].total.chars),
                 last_updated |-> max.rows[1].last_updated])
    ELSE Return([total_entries |-> Num(0), last_updated |-> Null])

getDatabaseInfo(p, count, max) ==
    LET stats == getDatabaseStats(p, count, max)
    IN  IF ~p
        THEN Return([total_entries |-> Num(0),
                     last_updated |-> Null,
                     database_type |-> "PostgreSQL (Not Configured)",
                     connection_status |-> "disconnected"])
        ELSE IF ~stats.threw
        THEN Return([total_entries |-> stats.value.total_entries,
                     last_updated |-> stats.value.last_updated,
                     database_type |-> "PostgreSQL",
                     connection_status |-> "connected"])
        ELSE Return([total_entries |-> Num(0),
                     last_updated |-> Null,
                     database_type |-> "PostgreSQL",
                     connection_status |-> "error"])

clearAllData(p, outcome) ==
    IF ~p THEN Return(NotConfigured)
    ELSE IF outcome.ok
    THEN Return([success |-> TRUE, message |-> Str("All data cleared successfully")])
    ELSE Return([success |-> FALSE, error |-> outcome.error])

testConnection(p, outcome) ==
    IF ~p THEN Return(FALSE)
    ELSE IF outcome.ok THEN Return(TRUE)
    ELSE Return(FALSE)

---------------------------------------------------------------------------
(* The server: one handler per route, suspended at its awaits *)

Boot == 0
Handlers == {Boot} \cup Slots

Awaited == Reads \cup {"delete"}

NoOutcomes == [q \in Awaited |-> NotRun]

\* seen and ran are history: the table the "all" query read, and the queries
\* answered while a DELETE was the last change of the table
Idle == [pc |-> "idle", pend |-> {}, out |-> NoOutcomes, arg |-> Undefined,
         seen |-> <<>>, ran |-> {}]

\* the handler waits at pc for the adapter calls behind the queries qs; with
\* no pool the calls return at once and no query is sent
Await(pc, qs, arg) ==
    [pc |-> pc, pend |-> IF pool THEN qs ELSE {}, out |-> NoOutcomes,
     arg |-> arg, seen |-> <<>>, ran |-> {}]

AdapterCalls ==
    {"getAllSentimentData", "getSentimentStats", "getChartData", "getRecentEntries",
     "getDatabaseInfo", "clearAllData"}

StartupCalls == {"testConnection", "getDatabaseStats"}

\* the queries each adapter call sends
CallQueries(call) ==
    CASE call = "getAllSentimentData" -> {"all"}
      [] call = "getSentimentStats" -> {"stats"}
      [] call = "getChartData" -> {"chart"}
      [] call = "getRecentEntries" -> {"recent"}
      [] call \in {"getDatabaseInfo", "getDatabaseStats"} -> {"count", "max"}
      [] call = "clearAllData" -> {"delete"}
      [] call = "testConnection" -> {"connect"}

CallValue(call, out) ==
    CASE call = "getAllSentimentData" -> getAllSentimentData(pool, out["all"])
      [] call = "getSentimentStats" -> getSentimentStats(pool, out["stats"])
      [] call = "getChartData" -> getChartData(pool, out["chart"])
      [] call = "getRecentEntries" -> getRecentEntries(pool, out["recent"])
      [] call = "getDatabaseInfo" -> getDatabaseInfo(pool, out["count"], out["max"])
      [] call = "getDatabaseStats" -> getDatabaseStats(pool, out["count"], out["max"])
      [] call = "clearAllData" -> clearAllData(pool, out["delete"])
      [] call = "testConnection" -> testConnection(pool, out["connect"])

\* the calls of handler h whose promise settles once the queries in done have
\* answered, with the value each settles with; ok and cleared are history:
\* every query of the call succeeded, and was answered after a DELETE with no
\* INSERT since
Settle(h, out, done, ran) ==
    { [call |-> c,
       ok |-> pool /\ \A q \in CallQueries(c) : out[q].ok,
       cleared |-> pool /\ CallQueries(c) \subseteq ran,
       value |-> CallValue(c, out)] :
        c \in { d \in (IF h = Boot THEN StartupCalls ELSE AdapterCalls) :
                  /\ CallQueries(d) \cap done # {}
                  /\ pool => \A q \in CallQueries(d) : out[q] # NotRun } }

\* the promises of the calls behind qs that settle without a query
Started(h, qs) == IF pool THEN {} ELSE Settle(h, NoOutcomes, qs, {})

Respond(status, body, route, input, note) ==
    response' = [status |-> status, body |-> body, route |-> route,
                 input |-> input, note |-> note]

\* v || d
Or(v, d) == IF Falsy(v) THEN d ELSE v

\* result.success as the handler reads it
Success(result) == IF result = Promise THEN FALSE ELSE result.success

StatsQueries == {"stats", "chart", "recent", "count", "max"}

Running == exited = -1

NoResponse ==
    [status |-> 0, body |-> Undefined, route |-> "none", input |-> Undefined,
     note |-> <<>>]
NoEvent ==
    [event |-> "none", payload |-> Undefined, to |-> {}, route |-> "none",
     countCleared |-> FALSE]
Quiet == response' = NoResponse /\ published' = NoEvent

\* no SIGINT yet, the pool takes queries
NoSignal == [pc |-> "none", ended |-> FALSE]

\* a query sent to the pool once pool.end() was called is rejected; one sent
\* before may still be answered
Ended == [ok |-> FALSE, error |-> Str("Cannot use a pool after calling end on the pool")]
Rejections == IF shutdown.ended THEN {Ended} ELSE {}

\* a DELETE that removes the oldest row only
DeleteOldest(t) == IF t = <<>> THEN t ELSE Tail(t)

\* DELETE FROM sentiment_analysis
DeleteAll(t) == <<>>

Init ==
    /\ pool \in BOOLEAN
    /\ storeUp \in (IF pool THEN BOOLEAN ELSE {FALSE})
    /\ table = <<>>
    /\ nextId = 1
    /\ clock = 0
    /\ boot = NotRun
    /\ req = [h \in Handlers |-> IF h = Boot THEN [Idle EXCEPT !.pc = "boot"] ELSE Idle]
    /\ floating = EmptyBag
    /\ settled = {}
    /\ response = NoResponse
    /\ sockets = {}
    /\ published = NoEvent
    /\ origin = <<>>
    /\ cleared = FALSE
    /\ unannounced = FALSE
    /\ exited = -1
    /\ shutdown = NoSignal

\* the start-up call of initializeDatabase, up to its first await
Initialize ==
    /\ Running
    /\ req[Boot].pc = "boot"
    /\ IF ~pool
       THEN /\ boot' = Return([total_entries |-> Num(0), last_updated |-> Null,
                               status |-> "fallback_mode"])
            /\ req' = [req EXCEPT ![Boot].pc = "booted"]
       ELSE /\ req' = [req EXCEPT ![Boot] = Await("boot_connect", {"connect"}, Undefined)]
            /\ UNCHANGED boot
    /\ settled' = {}
    /\ Quiet
    /\ UNCHANGED <<pool, storeUp, table, nextId, clock, floating, sockets, origin,
                   cleared, unannounced, exited, shutdown>>

\* the server takes requests; the model sends them once start-up is over,
\* whose calls write nothing a handler reads
Listening(r) == Running /\ req[Boot].pc = "booted" /\ req[r].pc = "idle"

\* the test of the handler with confidence left out
MissingRequiredButConfidence(body) ==
    \/ Falsy(body.text) \/ Falsy(body.predicted_class)
    \/ Falsy(body.all_probabilities)

\* !text || !predicted_class || !confidence || !all_probabilities
MissingRequired(body) ==
    \/ Falsy(body.text) \/ Falsy(body.predicted_class)
    \/ Falsy(body.confidence) \/ Falsy(body.all_probabilities)

\* POST /api/save-sentiment, up to its response or its first await
SaveSentiment(r, body) ==
    /\ Listening(r)
    /\ IF MissingRequired(body)
       THEN /\ Respond(400,
                       [success |-> FALSE,
                        error |-> Str("Missing required fields: text, predicted_class, confidence, all_probabilities")],
                       "save-sentiment", body, <<>>)
            /\ settled' = {}
            /\ UNCHANGED <<req, floating>>
       ELSE LET analysisData == AnalysisData(body)
                values == InsertValues(analysisData)
                \* insertSentimentAnalysis(...) is not awaited
                result == Promise
            IN  /\ IF ~pool
                   THEN /\ settled' = {[call |-> "insertSentimentAnalysis", ok |-> FALSE, cleared |-> FALSE,
                                        given |-> analysisData,
                                        value |-> insertSentimentAnalysis(pool, NotRun)]}
                        /\ UNCHANGED floating
                   ELSE IF values.threw
                   THEN /\ settled' = {[call |-> "insertSentimentAnalysis", ok |-> FALSE, cleared |-> FALSE,
                                        given |-> analysisData,
                                        value |-> insertSentimentAnalysis(pool,
                                                    [ok |-> FALSE, error |-> values.error])]}
                        /\ UNCHANGED floating
                   ELSE /\ nextId + BagCardinality(floating) <= MaxId
                        /\ floating' = floating (+)
                                SetToBag({[values |-> values.value, data |-> analysisData]})
                        /\ settled' = {}
                /\ IF Success(result)
                   THEN /\ req' = [req EXCEPT ![r] =
                                      Await("save_stats", {"stats", "chart"},
                                            [body |-> body, result |-> result])]
                        /\ response' = NoResponse
                   ELSE /\ Respond(500, [success |-> FALSE, error |-> Get(result, "error")],
                                   "save-sentiment", body, <<>>)
                        /\ UNCHANGED req
    /\ published' = NoEvent
    /\ UNCHANGED <<pool, storeUp, table, nextId, clock, boot, sockets, origin, cleared,
                   unannounced, exited, shutdown>>

\* a handler starts by awaiting adapter calls
Begin(r, pc, qs, arg) ==
    /\ req' = [req EXCEPT ![r] = Await(pc, qs, arg)]
    /\ settled' = Started(r, qs)
    /\ Quiet
    /\ UNCHANGED <<pool, storeUp, table, nextId, clock, boot, floating, sockets,
                   origin, cleared, unannounced, exited, shutdown>>

\* GET /api/sentiment-data?limit=
SentimentData(r, limit) ==
    /\ Listening(r)
    /\ Begin(r, "data", {"all"}, limit)

\* GET /api/sentiment-stats
SentimentStats(r) ==
    /\ Listening(r)
    /\ Begin(r, "stats", StatsQueries, Undefined)

\* GET /api/chart-data
ChartData(r) ==
    /\ Listening(r)
    /\ Begin(r, "chart", {"chart"}, Undefined)

\* GET /api/health
Health(r) ==
    /\ Listening(r)
    /\ Begin(r, "health", {"count", "max"}, Undefined)

\* DELETE /api/clear-data
ClearData(r) ==
    /\ Listening(r)
    /\ Begin(r, "clear", {"delete"}, Undefined)

\* the store answers one of the reads a handler waits for
Query(r, q) ==
    /\ Running
    /\ q \in req[r].pend \cap Reads
    /\ \E o \in (IF storeUp THEN Select(q, table) ELSE {Failed}) \cup Rejections :
          /\ req' = [req EXCEPT ![r].pend = @ \ {q},
                                ![r].out[q] = o,
                                ![r].seen = IF q = "all" THEN table ELSE @,
                                ![r].ran = IF cleared THEN @ \cup {q} ELSE @]
          /\ settled' = Settle(r, req'[r].out, {q}, req'[r].ran)
    /\ Quiet
    /\ UNCHANGED <<pool, storeUp, table, nextId, clock, boot, floating, sockets,
                   origin, cleared, unannounced, exited, shutdown>>

\* the store executes the DELETE of clearAllData
Delete(r) ==
    /\ Running
    /\ "delete" \in req[r].pend
    /\ \E o \in {IF storeUp THEN Rows(<<>>) ELSE Failed} \cup Rejections :
          /\ req' = [req EXCEPT ![r].pend = @ \ {"delete"}, ![r].out["delete"] = o]
          /\ settled' = Settle(r, req'[r].out, {"delete"}, {})
          /\ IF o.ok
             THEN /\ table' = DeleteAll(table)
                  /\ origin' = DeleteAll(origin)
                  /\ cleared' = TRUE
                  /\ unannounced' = TRUE
             ELSE UNCHANGED <<table, origin, cleared, unannounced>>
    /\ Quiet
    /\ UNCHANGED <<pool, storeUp, nextId, clock, boot, floating, sockets, exited, shutdown>>

\* the store executes the INSERT of an insert promise nobody awaits
Insert(call) ==
    /\ Running
    /\ BagIn(call, floating)
    /\ floating' = floating (-) SetToBag({call})
    /\ \E refusal \in (IF storeUp THEN Refusals(call.values) ELSE {Failed})
                         \cup Rejections :
          IF refusal = NotRun
          THEN \E now \in {clock + 1} :
                 LET row == InsertRow(call.values, nextId, now)
                 IN  /\ table' = Append(table, row)
                     /\ nextId' = nextId + 1
                     /\ clock' = now
                     /\ origin' = Append(origin, call.data.all_probabilities)
                     /\ cleared' = FALSE
                     /\ unannounced' = TRUE
                     /\ settled' = {[call |-> "insertSentimentAnalysis", ok |-> TRUE,
                                     cleared |-> FALSE, given |-> call.data,
                                     value |-> insertSentimentAnalysis(pool, Rows(<<row>>))]}
          ELSE /\ settled' = {[call |-> "insertSentimentAnalysis", ok |-> FALSE,
                               cleared |-> FALSE, given |-> call.data,
                               value |-> insertSentimentAnalysis(pool, refusal)]}
               /\ UNCHANGED <<table, nextId, clock, origin, cleared, unannounced>>
    /\ UNCHANGED req
    /\ Quiet
    /\ UNCHANGED <<pool, storeUp, boot, sockets, exited, shutdown>>

\* the adapter values a handler holds once its awaits are over
Awaited_stats(r) == getSentimentStats(pool, req[r].out["stats"])
Awaited_chart(r) == getChartData(pool, req[r].out["chart"])
Awaited_recent(r) == getRecentEntries(pool, req[r].out["recent"])
Awaited_info(r) == getDatabaseInfo(pool, req[r].out["count"], req[r].out["max"])

\* the payload of 'data-updated', also the body of GET /api/sentiment-stats
UpdateData(r) ==
    [statistics |-> Awaited_stats(r).value,
     chart_data |-> Awaited_chart(r).value,
     recent_entries |-> Awaited_recent(r).value,
     database_info |->
        [total_entries |-> Or(Awaited_info(r).value.total_entries, Num(0)),
         last_updated |-> Awaited_info(r).value.last_updated,
         database_type |-> Awaited_info(r).value.database_type]]

AnyThrew(r) ==
    \/ Awaited_stats(r).threw \/ Awaited_chart(r).threw
    \/ Awaited_recent(r).threw \/ Awaited_info(r).threw

\* broadcastDataUpdate once its four calls have settled: a failure is logged
\* and swallowed, else the event goes to every connected socket
broadcastDataUpdate(r) ==
    IF AnyThrew(r)
    THEN /\ published' = NoEvent
         /\ UNCHANGED unannounced
    ELSE /\ published' = [event |-> "data-updated", payload |-> UpdateData(r),
                          to |-> sockets, route |-> req[r].pc,
                          countCleared |-> "count" \in req[r].ran]
         /\ unannounced' = FALSE

Finish(r) == req' = [req EXCEPT ![r] = Idle]

Silent == published' = NoEvent /\ UNCHANGED unannounced

\* a handler goes on after its awaits, up to its response or its next await
Resume(r) ==
    /\ Running
    /\ req[r].pend = {}
    /\ req[r].pc \notin {"idle", "boot", "booted"}
    /\ CASE req[r].pc = "data" ->
              LET all == getAllSentimentData(pool, req[r].out["all"])
                  limit == req[r].arg
              IN  /\ IF all.threw
                     THEN Respond(500, [success |-> FALSE,
                                        error |-> Str("Failed to retrieve sentiment data")],
                                  "sentiment-data", limit, req[r].seen)
                     ELSE Respond(200,
                                  [success |-> TRUE,
                                   data |-> IF ~Falsy(limit)
                                            THEN slice(all.value, parseInt(limit.chars))
                                            ELSE all.value,
                                   total |-> Len(all.value)],
                                  "sentiment-data", limit,
                                  [table |-> req[r].seen,
                                   queried |-> pool /\ req[r].out["all"].ok])
                  /\ Finish(r)
                  /\ Silent
                  /\ settled' = {}
                  /\ UNCHANGED <<boot, exited>>
         [] req[r].pc = "stats" ->
              /\ IF AnyThrew(r)
                 THEN Respond(500, [success |-> FALSE,
                                    error |-> Str("Failed to retrieve sentiment statistics")],
                              "sentiment-stats", Undefined, <<>>)
                 ELSE Respond(200,
                              [f \in DOMAIN UpdateData(r) \cup {"success"} |->
                                  IF f = "success" THEN TRUE ELSE UpdateData(r)[f]],
                              "sentiment-stats", Undefined, <<>>)
              /\ Finish(r)
              /\ Silent
              /\ settled' = {}
              /\ UNCHANGED <<boot, exited>>
         [] req[r].pc = "chart" ->
              /\ IF Awaited_chart(r).threw
                 THEN Respond(500, [success |-> FALSE,
                                    error |-> Str("Failed to retrieve chart data")],
                              "chart-data", Undefined, <<>>)
                 ELSE Respond(200, [success |-> TRUE, chart_data |-> Awaited_chart(r).value],
                              "chart-data", Undefined, <<>>)
              /\ Finish(r)
              /\ Silent
              /\ settled' = {}
              /\ UNCHANGED <<boot, exited>>
         [] req[r].pc = "health" ->
              /\ IF Awaited_info(r).threw
                 THEN Respond(500, [status |-> "ERROR",
                                    message |-> "Database connection failed",
                                    error |-> Awaited_info(r).error],
                              "health", Undefined, <<>>)
                 ELSE Respond(200,
                              [status |-> "OK",
                               message |-> "Database API is running",
                               database |->
                                  [total_entries |->
                                       Or(Awaited_info(r).value.total_entries, Num(0)),
                                   database_type |-> Awaited_info(r).value.database_type,
                                   connection_status |->
                                       Awaited_info(r).value.connection_status,
                                   last_updated |-> Awaited_info(r).value.last_updated]],
                              "health", Undefined,
                              [queried |-> pool /\ req[r].out["count"].ok
                                                /\ req[r].out["max"].ok])
              /\ Finish(r)
              /\ Silent
              /\ settled' = {}
              /\ UNCHANGED <<boot, exited>>
         [] req[r].pc = "clear" ->
              LET result == clearAllData(pool, req[r].out["delete"])
              IN  IF result.threw
                  THEN /\ Respond(500, [success |-> FALSE,
                                        error |-> Str("Failed to clear data")],
                                  "clear-data", Undefined, <<>>)
                       /\ Finish(r)
                       /\ Silent
                       /\ settled' = {}
                       /\ UNCHANGED <<boot, exited>>
                  ELSE IF Success(result.value)
                  THEN /\ req' = [req EXCEPT ![r] =
                                     Await("clear_bcast", StatsQueries, Undefined)]
                       /\ settled' = Started(r, StatsQueries)
                       /\ response' = NoResponse
                       /\ Silent
                       /\ UNCHANGED <<boot, exited>>
                  ELSE /\ Respond(500, [success |-> FALSE,
                                        error |-> Or(result.value.error,
                                                     Str("Failed to clear data"))],
                                  "clear-data", Undefined, <<>>)
                       /\ Finish(r)
                       /\ Silent
                       /\ settled' = {}
                       /\ UNCHANGED <<boot, exited>>
         [] req[r].pc = "clear_bcast" ->
              /\ broadcastDataUpdate(r)
              /\ Respond(200, [success |-> TRUE,
                               message |-> Str("All sentiment data cleared successfully")],
                         "clear-data", Undefined, <<>>)
              /\ Finish(r)
              /\ settled' = {}
              /\ UNCHANGED <<boot, exited>>
         [] req[r].pc = "save_stats" ->
              IF Awaited_stats(r).threw \/ Awaited_chart(r).threw
              THEN /\ Respond(500, [success |-> FALSE,
                                    error |-> Str("Internal server error")],
                              "save-sentiment", req[r].arg.body, <<>>)
                   /\ Finish(r)
                   /\ Silent
                   /\ settled' = {}
                   /\ UNCHANGED <<boot, exited>>
              ELSE /\ req' = [req EXCEPT ![r] =
                                 Await("save_bcast", StatsQueries,
                                       [body |-> req[r].arg.body,
                                        result |-> req[r].arg.result,
                                        stats |-> Awaited_stats(r).value,
                                        chartData |-> Awaited_chart(r).value])]
                   /\ settled' = Started(r, StatsQueries)
                   /\ response' = NoResponse
                   /\ Silent
                   /\ UNCHANGED <<boot, exited>>
         [] req[r].pc = "save_bcast" ->
              /\ broadcastDataUpdate(r)
              /\ Respond(200, [success |-> TRUE,
                               message |-> Str("Sentiment analysis saved successfully"),
                               data |-> Get(req[r].arg.result, "data"),
                               current_stats |-> req[r].arg.stats,
                               chart_data |-> req[r].arg.chartData],
                         "save-sentiment", req[r].arg.body, <<>>)
              /\ Finish(r)
              /\ settled' = {}
              /\ UNCHANGED <<boot, exited>>
         [] req[r].pc = "boot_connect" ->
              /\ IF ~testConnection(pool, req[r].out["connect"]).value
                 THEN /\ boot' = Return([total_entries |-> Num(0), last_updated |-> Null,
                                         status |-> "connection_failed"])
                      /\ req' = [req EXCEPT ![r] = [Idle EXCEPT !.pc = "booted"]]
                 ELSE /\ req' = [req EXCEPT ![r] =
                                    Await("boot_stats", {"count", "max"}, Undefined)]
                      /\ UNCHANGED boot
              /\ response' = NoResponse
              /\ Silent
              /\ settled' = {}
              /\ UNCHANGED exited
         [] req[r].pc = "boot_stats" ->
              LET stats == getDatabaseStats(pool, req[r].out["count"], req[r].out["max"])
              IN  /\ boot' = IF stats.threw
                             THEN Return([total_entries |-> Num(0),
                                          last_updated |-> Null,
                                          status |-> "error"])
                             ELSE Return(stats.value)
                  /\ req' = [req EXCEPT ![r] = [Idle EXCEPT !.pc = "booted"]]
                  \* the start-up wrapper exits with 1 only if the call rejects
                  /\ exited' = IF boot'.threw THEN 1 ELSE exited
                  /\ response' = NoResponse
                  /\ Silent
                  /\ settled' = {}
    /\ UNCHANGED <<pool, storeUp, table, nextId, clock, floating, sockets, origin,
                   cleared, shutdown>>

\* what no request changes
Server == <<table, nextId, clock, boot, req, floating, origin, cleared,
            unannounced, exited, shutdown>>

\* a subscriber connects
Connect(c) ==
    /\ Running
    /\ c \notin sockets
    /\ sockets' = sockets \cup {c}
    /\ settled' = {}
    /\ Quiet
    /\ UNCHANGED <<pool, storeUp, Server>>

\* a subscriber disconnects
Disconnect(c) ==
    /\ Running
    /\ c \in sockets
    /\ sockets' = sockets \ {c}
    /\ settled' = {}
    /\ Quiet
    /\ UNCHANGED <<pool, storeUp, Server>>

\* the store stops answering
StoreDown ==
    /\ Running
    /\ pool /\ storeUp
    /\ storeUp' = FALSE
    /\ settled' = {}
    /\ Quiet
    /\ UNCHANGED <<pool, sockets, Server>>

\* the store answers again
StoreUp ==
    /\ Running
    /\ pool /\ ~storeUp
    /\ storeUp' = TRUE
    /\ settled' = {}
    /\ Quiet
    /\ UNCHANGED <<pool, sockets, Server>>

\* the requests and the store's answers
Serve(bodies, limits) ==
    \/ Initialize
    \/ \E r \in Slots, body \in bodies : SaveSentiment(r, body)
    \/ \E r \in Slots, limit \in limits : SentimentData(r, limit)
    \/ \E r \in Slots : SentimentStats(r)
    \/ \E r \in Slots : ChartData(r)
    \/ \E r \in Slots : Health(r)
    \/ \E r \in Slots : ClearData(r)
    \/ \E r \in Handlers, q \in Reads : Query(r, q)
    \/ \E r \in Slots : Delete(r)
    \/ \E call \in BagToSet(floating) : Insert(call)
    \/ \E r \in Handlers : Resume(r)

(* The server over a configured store that answers *)
InitLive == Init /\ pool /\ storeUp

Next ==
    \/ Serve(Bodies, Limits)
    \/ \E c \in Clients : Connect(c)
    \/ \E c \in Clients : Disconnect(c)

Spec == InitLive /\ [][Next]_vars

(* The server over a store that may be unconfigured, or stop answering *)
NextDegraded ==
    \/ Serve(ValidBodies, {Undefined})
    \/ StoreDown
    \/ StoreUp

SpecDegraded == Init /\ [][NextDegraded]_vars

(* The read routes over a table that already holds rows *)
StoredTable(bodies) ==
    [i \in 1..Len(bodies) |-> InsertRow(InsertValues(AnalysisData(bodies[i])).value, i, i)]

InitReads ==
    /\ pool = TRUE
    /\ storeUp = TRUE
    /\ \E n \in 0..MaxRows : \E bodies \in [1..n -> StoredBodies] :
          /\ table = StoredTable(bodies)
          /\ origin = [i \in 1..n |-> bodies[i].all_probabilities]
          /\ nextId = n + 1
          /\ clock = n
    /\ boot = NotRun
    /\ req = [h \in Handlers |-> IF h = Boot THEN [Idle EXCEPT !.pc = "boot"] ELSE Idle]
    /\ floating = EmptyBag
    /\ settled = {}
    /\ response = NoResponse
    /\ sockets = {}
    /\ published = NoEvent
    /\ cleared = FALSE
    /\ unannounced = FALSE
    /\ exited = -1
    /\ shutdown = NoSignal

NextReads ==
    \/ Initialize
    \/ \E r \in Slots, limit \in Limits : SentimentData(r, limit)
    \/ \E r \in Slots : SentimentStats(r)
    \/ \E r \in Slots : ChartData(r)
    \/ \E r \in Slots : Health(r)
    \/ \E r \in Handlers, q \in Reads : Query(r, q)
    \/ \E r \in Handlers : Resume(r)

SpecReads == InitReads /\ [][NextReads]_vars

\* what an unhandled rejection does to the process: the runtime ends it with
\* code 1, or only warns and lets it run, by its version and flags
UnhandledRejection == {1, -1}

\* process.on('SIGINT'), up to await pool.end(); with no pool, pool.end()
\* is a property read of null, which throws in the handler
Sigint ==
    /\ Running
    /\ shutdown.pc = "none"
    /\ IF ~pool
       THEN /\ shutdown' = [shutdown EXCEPT !.pc = "threw"]
            /\ exited' \in UnhandledRejection
       ELSE /\ shutdown' = [pc |-> "ending", ended |-> TRUE]
            /\ UNCHANGED exited
    /\ settled' = {}
    /\ Quiet
    /\ UNCHANGED <<pool, storeUp, table, nextId, clock, boot, req, floating, sockets,
                   origin, cleared, unannounced>>

\* the handler after await pool.end(): process.exit(0)
Exit ==
    /\ Running
    /\ shutdown.pc = "ending"
    /\ shutdown' = [shutdown EXCEPT !.pc = "exited"]
    /\ exited' = 0
    /\ settled' = {}
    /\ Quiet
    /\ UNCHANGED <<pool, storeUp, table, nextId, clock, boot, req, floating, sockets,
                   origin, cleared, unannounced>>

\* the server with the signal delivered at any moment, in either mode
NextShutdown ==
    \/ Serve(ValidBodies, {Undefined})
    \/ Sigint
    \/ Exit

SpecShutdown == Init /\ [][NextShutdown]_vars

---------------------------------------------------------------------------
(* The claims *)

Quiescent == (\A r \in Slots : req[r].pc = "idle") /\ floating = EmptyBag

IsNumber(v, lo, hi) == v.type = "number" /\ v.val >= lo /\ v.val <= hi

\* the three probabilities are there
CompleteTriple(p) ==
    /\ p.type = "object"
    /\ IsNumber(p.positive, 0, 100)
    /\ IsNumber(p.negative, 0, 100)
    /\ IsNumber(p.neutral, 0, 100)

\* a body as C1 wants it: text, predicted_class, a confidence in (0,1] and
\* all_probabilities with positive, negative and neutral
WellFormed(body) ==
    /\ body.text.type = "string" /\ body.text.val # ""
    /\ body.predicted_class.type = "string"
    /\ IsNumber(body.confidence, 1, 100)
    /\ CompleteTriple(body.all_probabilities)

\* one of the four required fields is not in the body
LacksField(body) ==
    \/ body.text = Undefined \/ body.predicted_class = Undefined
    \/ body.confidence = Undefined \/ body.all_probabilities = Undefined

\* C1: with the store connected, every save-sentiment request with a
\* well-formed body is answered 200 with success, the inserted record with
\* its id and created_at, and the stats and chart data
C1_SaveAnswers200 ==
    (response.route = "save-sentiment" /\ WellFormed(response.input)) =>
        /\ response.status = 200
        /\ response.body.success
        /\ response.body.data.id.type = "number"
        /\ response.body.data.created_at.type = "number"
        /\ response.body.current_stats # <<>>
        /\ response.body.chart_data # <<>>

\* C2: no insert or clear-all is left without a 'data-updated' event after
\* it once the requests are over, and an event goes to every connected socket
C2_ChangeIsBroadcast ==
    /\ Quiescent => ~unannounced
    /\ published.event = "data-updated" => published.to = sockets

\* C3: a save-sentiment request that lacks a required field is answered 400,
\* and the step that answers it writes no row, sends no insert, starts no
\* handler and emits no event
C3_MissingFieldRejected ==
    [][(response'.route = "save-sentiment" /\ LacksField(response'.input)) =>
          /\ response'.status = 400
          /\ table' = table
          /\ nextId' = nextId
          /\ floating' = floating
          /\ req' = req
          /\ published' = NoEvent]_vars

C3_Witness ==
    /\ response.route = "save-sentiment"
    /\ response.input.confidence = Undefined
    /\ response.status = 400
    /\ Len(table) > 0

Abs(n) == IF n < 0 THEN -n ELSE n

RECURSIVE SumPercentage(_, _)
SumPercentage(groups, i) ==
    IF i = 0 THEN 0 ELSE groups[i].percentage.val + SumPercentage(groups, i - 1)

Lists == {"getAllSentimentData", "getRecentEntries", "getSentimentStats", "getChartData"}

\* C4: a call all of whose queries were answered after a successful DELETE
\* with no INSERT since returns an empty list, getDatabaseInfo returns
\* total_entries 0 and last_updated null, and the event of a clear-data
\* request whose count was so answered carries total_entries 0
C4_ClearedReadsEmpty ==
    /\ \A s \in settled : s.cleared =>
          /\ s.call \in Lists => s.value = Return(<<>>)
          /\ s.call = "getDatabaseInfo" =>
                /\ ~s.value.threw
                /\ s.value.value.total_entries = Num(0)
                /\ s.value.value.last_updated = Null
    /\ (published.route = "clear_bcast" /\ published.countCleared) =>
          published.payload.database_info.total_entries = Num(0)

C4_Witness ==
    /\ published.event = "data-updated"
    /\ published.route = "clear_bcast"
    /\ published.countCleared
    /\ published.payload.statistics = <<>>
    /\ nextId = MaxId + 1

\* C5: getSentimentStats over a store of N rows returns one group per class
\* present, each count the number of rows of the class, each percentage
\* count*100/N to the nearest hundredth, the percentages adding up to 100
\* within a hundredth, the groups by count descending; nothing for no rows
C5_StatsExact ==
    \A s \in settled : (s.call = "getSentimentStats" /\ s.ok) =>
        LET v == s.value.value
            N == Len(table)
        IN  /\ ~s.value.threw
            /\ { v[i].predicted_class : i \in 1..Len(v) } =
                  { table[j].predicted_class : j \in 1..N }
            /\ \A i, j \in 1..Len(v) :
                  i # j => v[i].predicted_class # v[j].predicted_class
            /\ \A i \in 1..Len(v) :
                  LET count == Cardinality(InClass(table, v[i].predicted_class))
                  IN  /\ v[i].count = Num(count)
                      /\ 2 * Abs(v[i].percentage.val * N - count * 10000) <= N
            /\ N > 0 => Abs(SumPercentage(v, Len(v)) - 10000) <= 1
            /\ \A i \in 1..(Len(v) - 1) : v[i].count.val >= v[i + 1].count.val
            /\ N = 0 => v = <<>>

C5_Witness ==
    \E s \in settled :
        /\ s.call = "getSentimentStats" /\ s.ok
        /\ Len(table) = 3
        /\ Len(s.value.value) = 2
        /\ s.value.value[1].count = Num(2)
        /\ s.value.value[1].percentage = Num(6667)

\* C6: sentiment-data with limit N over a store of M rows answers min(N, M)
\* records, the most recently created ones, newest first, and total M;
\* with no limit it answers all M
C6_LimitNewestFirst ==
    (response.route = "sentiment-data" /\ response.status = 200
        /\ response.note.queried) =>
        LET t    == response.note.table
            M    == Len(t)
            data == response.body.data
        IN  /\ response.body.total = M
            /\ response.input = Undefined => Len(data) = M
            /\ \A N \in 0..MaxLimit :
                  response.input = Chars(ToDecimal(N)) => Len(data) = Min(N, M)
            /\ \A i \in 1..Len(data) :
                  \E j \in 1..M : /\ data[i].id = t[j].id
                                   /\ data[i].text = t[j].text
                                   /\ data[i].created_at = t[j].created_at
            /\ \A i, j \in 1..Len(data) :
                  i < j => /\ data[i].created_at.val >= data[j].created_at.val
                           /\ data[i].id # data[j].id
            /\ \A j \in 1..M :
                  (\A i \in 1..Len(data) : data[i].id # t[j].id) =>
                      \A i \in 1..Len(data) :
                          data[i].created_at.val >= t[j].created_at.val

C6_Witness ==
    /\ response.route = "sentiment-data"
    /\ response.status = 200
    /\ response.input = Chars(<<"2">>)
    /\ Len(response.note.table) = 5
    /\ Len(response.body.data) = 2
    /\ response.body.data[1].id = Num(5)

IsMessage(v) == v.type = "string" /\ v.val # ""

\* C7: an adapter call made with no pool, or whose query fails, returns and
\* never throws: insert and clear give success false with a message, the
\* lists are empty, the info is 0 and null; start-up returns, nothing exits
C7_DegradedNeverThrows ==
    /\ \A s \in settled : ~s.ok =>
          /\ ~s.value.threw
          /\ s.call \in {"insertSentimentAnalysis", "clearAllData"} =>
                /\ s.value.value.success = FALSE
                /\ IsMessage(s.value.value.error)
          /\ s.call \in Lists => s.value.value = <<>>
          /\ s.call \in {"getDatabaseInfo", "getDatabaseStats"} =>
                /\ s.value.value.total_entries = Num(0)
                /\ s.value.value.last_updated = Null
          /\ s.call = "testConnection" => s.value.value = FALSE
    /\ boot # NotRun => ~boot.threw
    /\ exited = -1

C7_Witness ==
    /\ pool
    /\ ~storeUp
    /\ Len(table) > 0
    /\ \E s \in settled : s.call = "getSentimentStats" /\ ~s.ok

\* C8: the health answer says 'connected' exactly when the count and
\* last-updated queries of getDatabaseInfo succeeded
C8_ConnectedMeansQueried ==
    (response.route = "health" /\ response.status = 200) =>
        /\ response.body.database.connection_status = "connected" =>
              response.note.queried
        /\ ~response.note.queried =>
              response.body.database.connection_status \in
                  {"disconnected", "error", "fallback_mode"}

C10_RowsHaveTriple ==
    \A i \in 1..Len(table) :
        /\ table[i].positive_prob.type = "number"
        /\ table[i].negative_prob.type = "number"
        /\ table[i].neutral_prob.type = "number"

\* C11: once the SIGINT handler is over the process has exited, and after
\* the signal it only exits with pool.end() called before
C11_SigintClosesThenExits ==
    /\ shutdown.pc \in {"exited", "threw"} => exited # -1
    /\ (shutdown.pc # "none" /\ exited # -1) => shutdown.ended

RECURSIVE SumCounts(_, _)
SumCounts(groups, i) ==
    IF i = 0 THEN 0 ELSE groups[i].count.val + SumCounts(groups, i - 1)

\* statistics, chart_data, recent_entries and database_info describe one table
Consistent(p) ==
    /\ SumCounts(p.statistics, Len(p.statistics)) = p.database_info.total_entries.val
    /\ { <<Capitalize(p.statistics[i].predicted_class), p.statistics[i].count>> :
            i \in 1..Len(p.statistics) } =
       { <<p.chart_data[i].name, p.chart_data[i].count>> : i \in 1..Len(p.chart_data) }
    /\ Len(p.chart_data) = Len(p.statistics)
    /\ Len(p.recent_entries) = Min(5, p.database_info.total_entries.val)

\* C12: the payload of every 'data-updated' event and the body of every
\* sentiment-stats answer are consistent: the counts of statistics add up to
\* total_entries, chart_data has the groups and counts of statistics, and
\* recent_entries has min(5, total_entries) records
C12_PayloadConsistent ==
    /\ published.event = "data-updated" => Consistent(published.payload)
    /\ (response.route = "sentiment-stats" /\ response.status = 200) =>
          Consistent(response.body)

\* the payload's total and per-class counts are those of the table t
Describes(p, t) ==
    /\ p.database_info.total_entries.val = Len(t)
    /\ { p.statistics[i].predicted_class : i \in 1..Len(p.statistics) } =
       { t[j].predicted_class : j \in 1..Len(t) }
    /\ \A i \in 1..Len(p.statistics) :
          p.statistics[i].count.val =
             Cardinality(InClass(t, p.statistics[i].predicted_class))

\* C13: an event published with no request running and no insert pending,
\* hence the last one until a new request, describes the table
C13_LastEventDescribesStore ==
    (published.event = "data-updated" /\ Quiescent) =>
        Describes(published.payload, table)

=============================================================================
